---- MODULE Spec2Model ----
(***************************************************************************)
(* A model of llm_tools_clojure.py: the ClojureREPL toolbox, an nREPL      *)
(* client that finds the server's port file, keeps one cached connection   *)
(* and session, evaluates code and aggregates the response frames.         *)
(*                                                                         *)
(* Text is modelled character by character: a Python str is a sequence of  *)
(* one-character strings, so that strip, join and the f-strings compute    *)
(* what the code computes.                                                 *)
(***************************************************************************)
EXTENDS Integers, Sequences, FiniteSets, TLC

VARIABLES
    repl_type,    \* self.repl_type
    connection,   \* self._connection: None or the id of a connection
    session,      \* self._session: None or a session id
    cwd,          \* os.getcwd()
    files,        \* the file system: path -> [readable, content]
    conns,        \* number of connections nrepl.connect has returned
    open,         \* ids of the connections that are open
    wire,         \* wire[c]: the requests written on c that the server has not taken
    log,          \* log[c]: the requests written on c, in order, without their code
    inbox,        \* inbox[c]: frames the server sent on c that are not read yet
    issued,       \* number of session ids the server has issued
    sent,         \* number of frames the server has sent before done frames
    negotiated,   \* c -> the value read from the clone response on c
    threads,      \* the host threads that issue calls
    budget,       \* what the run may hold: calls, frames before done, failures
    pc,           \* pc[t]: where thread t is in its call
    op,           \* op[t]: the operation thread t runs
    code,         \* code[t]: the argument of eval_clojure
    conn,         \* conn[t]: the local variable conn
    current_dir,  \* current_dir[t]: the local of _read_nrepl_port
    port,         \* port[t]: the local port of _get_connection
    probed,       \* probed[t]: the directories _read_nrepl_port has tested
    results,      \* results[t]: the local list results
    outputs,      \* outputs[t]: the local list outputs
    errors,       \* errors[t]: the local list errors
    namespace,    \* namespace[t]: the local of get_namespace
    got,          \* got[t]: the frames the call has read
    tool,         \* tool[t]: the tool the host called
    pattern,      \* pattern[t]: the argument of apropos and find_doc
    owner,        \* owner[c]: for each frame of inbox[c], the request it answers
    asked,        \* asked[t]: the requests the call has written
    took,         \* took[t]: for each frame the call has read, the request it answers
    did,          \* did[t]: the steps of _get_connection the call has taken
    ret,          \* ret[t]: the text the last call of t returned
    outcome,      \* outcome[t]: how the last call of t ended: return, except or raise
    afterClose,   \* afterClose[t]: the call began right after a close that closed
    prevClosed,   \* the last completed call was a close that closed a connection
    calls,        \* number of calls begun
    faults        \* number of failures the environment has injected

instanceVars == <<repl_type, connection, session>>
fsVars == <<cwd, files>>
netVars == <<conns, open, wire, log, inbox, owner, issued, sent, negotiated>>
localVars == <<code, conn, current_dir, probed, results, outputs, errors, namespace,
               got, did, asked, took>>
endVars == <<pc, ret, outcome, prevClosed>>
vars == <<repl_type, connection, session, cwd, files, conns, open, wire, log, inbox,
          issued, sent, negotiated, threads, budget, tool, pattern, pc, op, code, conn, current_dir, port, probed, results,
          outputs, errors, namespace, got, did, ret, outcome, afterClose, prevClosed, calls,
          faults, tool, pattern, owner, asked, took>>

-----------------------------------------------------------------------------
(* Bounds of the model. *)

\* Calls issued in one run of the toolbox.
MaxCalls == 3
\* Failures (connect, write, read, close) the environment injects in one run.
MaxFaults == 1
\* Frames the server sends before done frames in one run of the toolbox.
FewFrames == 1
\* Calls of eval_clojure in one run of evaluations.
EvalCalls == 2
\* Frames the server sends before done frames in one run of evaluations.
MaxFrames == 3
\* Depth of the working directory below the file system root.
MaxDepth == 3
\* Length of a port file's content.
MaxLen == 4
\* Length of the pattern given to apropos and find_doc.
MaxPattern == 3

\* Python's None, the initial value of _connection and _session.
None == 0

Threads == {1, 2}

-----------------------------------------------------------------------------
(* Python's str methods and os.path, on sequences of characters. *)

Whitespace == {" ", "\n", "\t", "\r"}

RECURSIVE LStrip(_, _)
\* s.lstrip(chars)
LStrip(s, chars) ==
    IF s # <<>> /\ Head(s) \in chars THEN LStrip(Tail(s), chars) ELSE s

RECURSIVE RStrip(_, _)
\* s.rstrip(chars)
RStrip(s, chars) ==
    IF s # <<>> /\ s[Len(s)] \in chars THEN RStrip(SubSeq(s, 1, Len(s) - 1), chars) ELSE s

\* s.strip(): whitespace off both ends
Strip(s) == RStrip(LStrip(s, Whitespace), Whitespace)

\* f.read().strip().rstrip('%')
StripPort(content) == RStrip(Strip(content), {"%"})

RECURSIVE JoinWith(_, _)
\* sep.join(parts)
JoinWith(sep, parts) ==
    IF parts = <<>> THEN <<>>
    ELSE IF Len(parts) = 1 THEN parts[1]
    ELSE parts[1] \o sep \o JoinWith(sep, Tail(parts))

\* s.rfind('/') + 1
AfterLastSlash(p) ==
    LET at == {i \in 1..Len(p) : p[i] = "/"}
    IN IF at = {} THEN 0 ELSE CHOOSE i \in at : \A j \in at : j <= i

\* os.path.dirname(p)
\* A dirname that never leaves the directory.
DirnameKeepsLast(p) == p
Dirname(p) ==
    LET head == SubSeq(p, 1, AfterLastSlash(p))
    IN IF head # <<>> /\ (\E i \in 1..Len(head) : head[i] # "/")
       THEN RStrip(head, {"/"})
       ELSE head

\* os.path.join(a, b)
PathJoin(a, b) ==
    IF b # <<>> /\ Head(b) = "/" THEN b
    ELSE IF a = <<>> \/ a[Len(a)] = "/" THEN a \o b
    ELSE a \o <<"/">> \o b

-----------------------------------------------------------------------------
(* The texts of the program. *)

\* '.nrepl-port'
PortFileClj ==
    <<".","n","r","e","p","l","-","p","o","r","t">>

\* '.shadow-cljs/nrepl.port'
PortFileCljs ==
    <<".","s","h","a","d","o","w","-","c","l","j","s","/","n","r","e","p","l",".","p","o","r",
      "t">>

\* 'No '
NoFileHead ==
    <<"N","o"," ">>

\* ' file found in current directory or any parent directories. Make sure your '
NoFileMid ==
    <<" ","f","i","l","e"," ","f","o","u","n","d"," ","i","n"," ","c","u","r","r","e","n","t",
      " ","d","i","r","e","c","t","o","r","y"," ","o","r"," ","a","n","y"," ","p","a","r","e",
      "n","t"," ","d","i","r","e","c","t","o","r","i","e","s","."," ","M","a","k","e"," ","s",
      "u","r","e"," ","y","o","u","r"," ">>

\* ' REPL is running.'
NoFileTail ==
    <<" ","R","E","P","L"," ","i","s"," ","r","u","n","n","i","n","g",".">>

\* 'Clojure'
NameClojure ==
    <<"C","l","o","j","u","r","e">>

\* 'ClojureScript'
NameClojureScript ==
    <<"C","l","o","j","u","r","e","S","c","r","i","p","t">>

\* 'Error reading port file '
ErrReadingPortFile ==
    <<"E","r","r","o","r"," ","r","e","a","d","i","n","g"," ","p","o","r","t"," ","f","i","l",
      "e"," ">>

\* ': '
ColonSpace ==
    <<":"," ">>

\* 'Output:\n'
OutputHeader ==
    <<"O","u","t","p","u","t",":","\n">>

\* 'Result: '
ResultHeader ==
    <<"R","e","s","u","l","t",":"," ">>

\* 'Errors:\n'
ErrorsHeader ==
    <<"E","r","r","o","r","s",":","\n">>

\* 'Evaluation completed with no output'
NoOutputText ==
    <<"E","v","a","l","u","a","t","i","o","n"," ","c","o","m","p","l","e","t","e","d"," ","w",
      "i","t","h"," ","n","o"," ","o","u","t","p","u","t">>

\* 'Error evaluating Clojure code: '
EvalErrorPrefix ==
    <<"E","r","r","o","r"," ","e","v","a","l","u","a","t","i","n","g"," ","C","l","o","j","u",
      "r","e"," ","c","o","d","e",":"," ">>

\* 'Current namespace: '
NamespacePrefix ==
    <<"C","u","r","r","e","n","t"," ","n","a","m","e","s","p","a","c","e",":"," ">>

\* 'unknown'
UnknownText ==
    <<"u","n","k","n","o","w","n">>

\* 'Error getting namespace: '
NamespaceErrorPrefix ==
    <<"E","r","r","o","r"," ","g","e","t","t","i","n","g"," ","n","a","m","e","s","p","a","c",
      "e",":"," ">>

\* 'nREPL connection closed'
ClosedText ==
    <<"n","R","E","P","L"," ","c","o","n","n","e","c","t","i","o","n"," ","c","l","o","s","e",
      "d">>

\* 'No active connection to close'
NoActiveText ==
    <<"N","o"," ","a","c","t","i","v","e"," ","c","o","n","n","e","c","t","i","o","n"," ","t",
      "o"," ","c","l","o","s","e">>

\* 'Error closing connection: '
CloseErrorPrefix ==
    <<"E","r","r","o","r"," ","c","l","o","s","i","n","g"," ","c","o","n","n","e","c","t","i",
      "o","n",":"," ">>

\* 'No result'
NoResultText ==
    <<"N","o"," ","r","e","s","u","l","t">>

\* 'Error: '
SimpleErrorPrefix ==
    <<"E","r","r","o","r",":"," ">>

\* '*ns*'
NsCode ==
    <<"*","n","s","*">>

-----------------------------------------------------------------------------
(* The environment: the file system, the nREPL server and the failures of   *)
(* the library calls.                                                       *)

\* The port the nREPL server listens on.
ServerPort == <<"7", "8", "8", "8">>

\* str(e) of the exceptions the library calls raise.
ExcOpen == <<"d", "e", "n", "i", "e", "d">>
ExcNoFile == <<"n", "o", " ", "f", "i", "l", "e">>
ExcConnect == <<"r", "e", "f", "u", "s", "e", "d">>
ExcWrite == <<"b", "r", "o", "k", "e", "n", " ", "p", "i", "p", "e">>
ExcRead == <<"r", "e", "s", "e", "t">>
ExcClose == <<"b", "a", "d", " ", "f", "d">>

DirName(i) == <<"A", "B", "C", "D", "E", "F">>[i]

RECURSIVE DirAt(_)
\* The directory d levels below the root: "/", "/A", "/A/B", ...
DirAt(d) == IF d = 0 THEN <<"/">> ELSE PathJoin(DirAt(d - 1), <<DirName(d)>>)

Dirs == {DirAt(d) : d \in 0..MaxDepth}

Readable(content) == [readable |-> TRUE, content |-> content]
Unreadable == [readable |-> FALSE, content |-> <<>>]

\* The response frames of the server. The k-th frame of a response carries
\* texts that name k, so that a dropped, doubled or reordered frame shows.
Digit(k) == <<"1", "2", "3", "4", "5", "6", "7", "8", "9">>[k]
OutText(k) == <<"o", Digit(k)>>
ValueText(k) == <<"v", Digit(k)>>
ErrText(k) == <<"e", Digit(k)>>

NonDoneKinds == {"out", "value", "err", "all"}
DoneKinds == {"done", "value+done"}

Frame(kind, k) ==
    CASE kind = "out" -> [out |-> OutText(k)]
      [] kind = "value" -> [value |-> ValueText(k)]
      [] kind = "err" -> [err |-> ErrText(k), status |-> {"eval-error"}]
      [] kind = "all" -> [out |-> OutText(k), value |-> ValueText(k), err |-> ErrText(k)]
      [] kind = "done" -> [status |-> {"done"}]
      [] kind = "value+done" -> [value |-> ValueText(k), status |-> {"done", "ok"}]

\* The responses to an eval request: n frames, then the done frame.
EvalStreams(n) ==
    {[k \in 1..(n + 1) |-> IF k <= n THEN Frame(ks[k], k) ELSE Frame(d, k)] :
        ks \in [1..n -> NonDoneKinds], d \in DoneKinds}

\* The response to a clone request, with the session id or without one.
CloneResponse(sid) ==
    IF sid = None THEN [status |-> {"done", "error"}]
    ELSE ("new-session" :> sid) @@ [status |-> {"done"}]

\* response.get(key, default)
Get(response, key, default) == IF key \in DOMAIN response THEN response[key] ELSE default

-----------------------------------------------------------------------------
(* The end of a call. *)

\* The call of thread t ends with text: by a return statement of its try block
\* ("return"), by the return of its except clause ("except"), or by an exception
\* that reaches the caller ("raise").
Finish(t, text, how) ==
    /\ pc' = [pc EXCEPT ![t] = "idle"]
    /\ ret' = [ret EXCEPT ![t] = text]
    /\ outcome' = [outcome EXCEPT ![t] = how]
    /\ prevClosed' = (op[t] = "close" /\ how = "return" /\ text = ClosedText)

\* An except clause of eval_clojure that adds the output collected so far.
ThrowKeepsPartial(t, msg) ==
    IF op[t] = "eval"
    THEN Finish(t, EvalErrorPrefix \o msg \o JoinWith(<<>>, outputs[t]), "except")
    ELSE Finish(t, msg, IF op[t] = "locate" THEN "raise" ELSE "except")

\* An exception with str(e) = msg reaches the except clause of the operation;
\* _read_nrepl_port called on its own has none.
Throw(t, msg) ==
    CASE op[t] = "eval" -> Finish(t, EvalErrorPrefix \o msg, "except")
      [] op[t] = "ns" -> Finish(t, NamespaceErrorPrefix \o msg, "except")
      [] op[t] = "close" -> Finish(t, CloseErrorPrefix \o msg, "except")
      [] op[t] = "locate" -> Finish(t, msg, "raise")
      [] op[t] = "simple" -> Finish(t, SimpleErrorPrefix \o msg, "except")

\* The environment makes a library call on connection c fail. A call on a
\* closed connection always fails; one on an open connection fails when the
\* environment injects a failure.
Fails(c) ==
    /\ c \notin open \/ faults < budget.faults
    /\ faults' = IF c \in open THEN faults + 1 ELSE faults

-----------------------------------------------------------------------------
(* _read_nrepl_port *)

\* port_file
PortFile(type) == IF type = "cljs" THEN PortFileCljs ELSE PortFileClj

\* repl_name
ReplName(type) == IF type = "cljs" THEN NameClojureScript ELSE NameClojure

\* The message of the exception raised when no directory has the port file.
NoFileMessage(type) ==
    NoFileHead \o PortFile(type) \o NoFileMid \o ReplName(type) \o NoFileTail

\* The message of the exception raised when the port file cannot be read.
UnreadableMessage(port_path) ==
    ErrReadingPortFile \o port_path \o ColonSpace \o ExcOpen

\* The port is found: _read_nrepl_port returns it.
Located(t, p) ==
    IF op[t] = "locate"
    THEN /\ Finish(t, p, "return")
         /\ UNCHANGED port
    ELSE /\ pc' = [pc EXCEPT ![t] = "connect"]
         /\ port' = [port EXCEPT ![t] = p]
         /\ UNCHANGED <<ret, outcome, prevClosed>>

\* One iteration of the loop of _read_nrepl_port.
Locate(t) ==
    /\ pc[t] = "locate"
    /\ LET port_path == PathJoin(current_dir[t], PortFile(repl_type))
           parent_dir == Dirname(current_dir[t])
       IN /\ probed' = [probed EXCEPT ![t] = Append(@, current_dir[t])]
          /\ IF port_path \in DOMAIN files
             THEN /\ IF files[port_path].readable
                     THEN Located(t, StripPort(files[port_path].content))
                     ELSE Throw(t, UnreadableMessage(port_path)) /\ UNCHANGED port
                  /\ UNCHANGED current_dir
             ELSE IF parent_dir = current_dir[t]
                  THEN /\ Throw(t, NoFileMessage(repl_type))
                       /\ UNCHANGED <<port, current_dir>>
                  ELSE /\ current_dir' = [current_dir EXCEPT ![t] = parent_dir]
                       /\ UNCHANGED <<port, endVars>>
    /\ did' = [did EXCEPT ![t].discovered = TRUE]
    /\ UNCHANGED <<instanceVars, fsVars, netVars, threads, budget, tool, pattern, op, code, conn, results,
                   outputs, errors, namespace, got, afterClose, calls, faults,
                   asked, took>>

\* _read_nrepl_port called on its own.
BeginLocate(t) ==
    /\ t \in threads
    /\ pc[t] = "idle"
    /\ calls < budget.calls
    /\ calls' = calls + 1
    /\ pc' = [pc EXCEPT ![t] = "locate"]
    /\ op' = [op EXCEPT ![t] = "locate"]
    /\ current_dir' = [current_dir EXCEPT ![t] = cwd]
    /\ probed' = [probed EXCEPT ![t] = <<>>]
    /\ ret' = [ret EXCEPT ![t] = <<>>]
    /\ outcome' = [outcome EXCEPT ![t] = "none"]
    /\ UNCHANGED <<instanceVars, fsVars, netVars, threads, budget, tool, pattern, code, conn, port, results,
                   outputs, errors, namespace, got, did, afterClose, prevClosed, faults,
                   asked, took>>

-----------------------------------------------------------------------------
(* _get_connection *)

\* A test that never finds the cached connection.
NeedsConnectionAlways(c) == TRUE

\* if self._connection is None
NeedsConnection(c) == c = None

\* f"nrepl://localhost:{port}"
Url(p) ==
    <<"n", "r", "e", "p", "l", ":", "/", "/", "l", "o", "c", "a", "l", "h", "o", "s", "t",
      ":">> \o p

\* The steps of _get_connection a call has not taken.
NoSteps == [discovered |-> FALSE, opened |-> None, cloned |-> FALSE]

\* An entry under a lock: a call begins only when no other call runs.
EnterLocked(t, o, c) ==
    /\ \A u \in threads : pc[u] = "idle"
    /\ t \in threads
    /\ calls < budget.calls
    /\ calls' = calls + 1
    /\ op' = [op EXCEPT ![t] = o]
    /\ code' = [code EXCEPT ![t] = c]
    /\ pc' = [pc EXCEPT ![t] = IF NeedsConnection(connection) THEN "locate" ELSE "write"]
    /\ conn' = [conn EXCEPT ![t] = connection]
    /\ current_dir' = [current_dir EXCEPT ![t] = cwd]
    /\ port' = [port EXCEPT ![t] = <<>>]
    /\ probed' = [probed EXCEPT ![t] = <<>>]
    /\ results' = [results EXCEPT ![t] = <<>>]
    /\ outputs' = [outputs EXCEPT ![t] = <<>>]
    /\ errors' = [errors EXCEPT ![t] = <<>>]
    /\ namespace' = [namespace EXCEPT ![t] = <<>>]
    /\ got' = [got EXCEPT ![t] = <<>>]
    /\ did' = [did EXCEPT ![t] = NoSteps]
    /\ ret' = [ret EXCEPT ![t] = <<>>]
    /\ outcome' = [outcome EXCEPT ![t] = "none"]
    /\ asked' = [asked EXCEPT ![t] = {}]
    /\ took' = [took EXCEPT ![t] = <<>>]
    /\ afterClose' = [afterClose EXCEPT ![t] = prevClosed]
    /\ UNCHANGED <<instanceVars, fsVars, netVars, threads, budget, prevClosed, faults>>

\* The try block of eval_clojure or get_namespace is entered: _get_connection
\* tests the cached connection and returns it, or starts with the port file.
Enter(t, o, c) ==
    /\ t \in threads
    /\ pc[t] = "idle"
    /\ calls < budget.calls
    /\ calls' = calls + 1
    /\ op' = [op EXCEPT ![t] = o]
    /\ code' = [code EXCEPT ![t] = c]
    /\ pc' = [pc EXCEPT ![t] = IF NeedsConnection(connection) THEN "locate" ELSE "write"]
    /\ conn' = [conn EXCEPT ![t] = connection]
    /\ current_dir' = [current_dir EXCEPT ![t] = cwd]
    /\ port' = [port EXCEPT ![t] = <<>>]
    /\ probed' = [probed EXCEPT ![t] = <<>>]
    /\ results' = [results EXCEPT ![t] = <<>>]
    /\ outputs' = [outputs EXCEPT ![t] = <<>>]
    /\ errors' = [errors EXCEPT ![t] = <<>>]
    /\ namespace' = [namespace EXCEPT ![t] = <<>>]
    /\ got' = [got EXCEPT ![t] = <<>>]
    /\ did' = [did EXCEPT ![t] = NoSteps]
    /\ ret' = [ret EXCEPT ![t] = <<>>]
    /\ outcome' = [outcome EXCEPT ![t] = "none"]
    /\ asked' = [asked EXCEPT ![t] = {}]
    /\ took' = [took EXCEPT ![t] = <<>>]
    /\ afterClose' = [afterClose EXCEPT ![t] = prevClosed]
    /\ UNCHANGED <<instanceVars, fsVars, netVars, threads, budget, prevClosed, faults>>

\* The host calls eval_clojure(c) or get_namespace().
Begin(t, o, c) ==
    /\ Enter(t, o, c)
    /\ tool' = [tool EXCEPT ![t] = IF o = "ns" THEN "get_namespace" ELSE "eval_clojure"]
    /\ pattern' = [pattern EXCEPT ![t] = <<>>]

\* self._connection = nrepl.connect(url): a new connection to the server.
Connect(t) ==
    /\ pc[t] = "connect"
    /\ Url(port[t]) = Url(ServerPort)
    /\ conns' = conns + 1
    /\ open' = open \cup {conns + 1}
    /\ wire' = Append(wire, <<>>)
    /\ log' = Append(log, <<>>)
    /\ inbox' = Append(inbox, <<>>)
    /\ owner' = Append(owner, <<>>)
    /\ connection' = conns + 1
    /\ did' = [did EXCEPT ![t].opened = conns + 1]
    /\ pc' = [pc EXCEPT ![t] = "clone"]
    /\ UNCHANGED <<repl_type, session, fsVars, issued, sent, negotiated, threads, budget, tool, pattern, op, code,
                   conn, current_dir, port, probed, results, outputs, errors, namespace,
                   got, ret, outcome, afterClose, prevClosed, calls, faults,
                   asked, took>>

\* nrepl.connect raises: nothing listens at the url, or the connect fails.
ConnectFails(t) ==
    /\ pc[t] = "connect"
    /\ Url(port[t]) # Url(ServerPort) \/ faults < budget.faults
    /\ faults' = IF Url(port[t]) = Url(ServerPort) THEN faults + 1 ELSE faults
    /\ Throw(t, ExcConnect)
    /\ UNCHANGED <<instanceVars, fsVars, netVars, threads, budget, tool, pattern, op, localVars, port,
                   afterClose, calls>>

\* self._connection.write({"op": "clone"})
CloneMessage == [op |-> "clone"]

\* The transport's write(message) on connection c.
Send(c, message) ==
    /\ wire' = [wire EXCEPT ![c] = Append(@, message)]
    /\ log' = [log EXCEPT ![c] =
                  Append(@, [k \in DOMAIN message \ {"code"} |-> message[k]])]

\* The transport's read() on connection c: the next frame, taken off the connection.
Receive(c) ==
    /\ inbox' = [inbox EXCEPT ![c] = Tail(@)]
    /\ owner' = [owner EXCEPT ![c] = Tail(@)]

\* Thread t has written the next request on connection c.
Asks(t, c) == asked' = [asked EXCEPT ![t] = @ \cup {<<c, Len(log[c]) + 1>>}]

\* Thread t has read the next frame of connection c.
Takes(t, c) == took' = [took EXCEPT ![t] = Append(@, <<c, Head(owner[c])>>)]

CloneWrite(t) ==
    /\ pc[t] = "clone"
    /\ connection \in open
    /\ Send(connection, CloneMessage)
    /\ Asks(t, connection)
    /\ did' = [did EXCEPT ![t].cloned = TRUE]
    /\ pc' = [pc EXCEPT ![t] = "session"]
    /\ UNCHANGED <<instanceVars, fsVars, conns, open, inbox, owner, issued, sent, negotiated,
                   threads, budget, tool, pattern, op, code, conn, current_dir, port, probed, results, outputs,
                   errors, namespace, got, took, ret, outcome, afterClose, prevClosed, calls,
                   faults>>

CloneWriteFails(t) ==
    /\ pc[t] = "clone"
    /\ Fails(connection)
    /\ Throw(t, ExcWrite)
    /\ UNCHANGED <<instanceVars, fsVars, netVars, threads, budget, tool, pattern, op, localVars, port,
                   afterClose, calls>>

\* response = self._connection.read(); self._session = response.get("new-session");
\* return self._connection
CloneRead(t) ==
    /\ pc[t] = "session"
    /\ connection \in open
    /\ inbox[connection] # <<>>
    /\ LET response == Head(inbox[connection])
       IN /\ session' = Get(response, "new-session", None)
          /\ negotiated' = (connection :> Get(response, "new-session", None)) @@ negotiated
    /\ Receive(connection)
    /\ Takes(t, connection)
    /\ conn' = [conn EXCEPT ![t] = connection]
    /\ pc' = [pc EXCEPT ![t] = "write"]
    /\ UNCHANGED <<repl_type, connection, fsVars, conns, open, wire, log, issued, sent,
                   threads, budget, tool, pattern, op, code, current_dir, port, probed, results, outputs,
                   errors, namespace, got, did, asked, ret, outcome, afterClose, prevClosed,
                   calls, faults>>

CloneReadFails(t) ==
    /\ pc[t] = "session"
    /\ Fails(connection)
    /\ Throw(t, ExcRead)
    /\ UNCHANGED <<instanceVars, fsVars, netVars, threads, budget, tool, pattern, op, localVars, port,
                   afterClose, calls>>

-----------------------------------------------------------------------------
(* eval_clojure *)

\* {"op": "eval", "code": code, "session": self._session}
EvalMessage(c, s) == [op |-> "eval", code |-> c, session |-> s]

\* An elif chain: the first key present is collected, the others are dropped.
CollectFirstKeyOnly(lists, response) ==
    IF "value" \in DOMAIN response
    THEN [lists EXCEPT !.results = Append(@, response["value"])]
    ELSE IF "out" \in DOMAIN response
    THEN [lists EXCEPT !.outputs = Append(@, response["out"])]
    ELSE IF "err" \in DOMAIN response
    THEN [lists EXCEPT !.errors = Append(@, response["err"])]
    ELSE lists

\* One response added to the three lists.
Collect(lists, response) ==
    [results |-> IF "value" \in DOMAIN response
                 THEN Append(lists.results, response["value"]) ELSE lists.results,
     outputs |-> IF "out" \in DOMAIN response
                 THEN Append(lists.outputs, response["out"]) ELSE lists.outputs,
     errors  |-> IF "err" \in DOMAIN response
                 THEN Append(lists.errors, response["err"]) ELSE lists.errors]

\* "status" in response and "done" in response["status"]
IsDone(response) == "status" \in DOMAIN response /\ "done" \in response["status"]

\* A format that joins the values with no separator.
FormatResultNoSpace(lists) ==
    LET p1 == IF lists.outputs # <<>>
              THEN <<OutputHeader \o JoinWith(<<>>, lists.outputs)>> ELSE <<>>
        p2 == IF lists.results # <<>>
              THEN Append(p1, ResultHeader \o JoinWith(<<>>, lists.results)) ELSE p1
        result_parts == IF lists.errors # <<>>
                        THEN Append(p2, ErrorsHeader \o JoinWith(<<>>, lists.errors))
                        ELSE p2
    IN IF result_parts = <<>> THEN NoOutputText ELSE JoinWith(<<"\n">>, result_parts)

\* The text returned for the three lists.
FormatResult(lists) ==
    LET p1 == IF lists.outputs # <<>>
              THEN <<OutputHeader \o JoinWith(<<>>, lists.outputs)>> ELSE <<>>
        p2 == IF lists.results # <<>>
              THEN Append(p1, ResultHeader \o JoinWith(<<" ">>, lists.results)) ELSE p1
        result_parts == IF lists.errors # <<>>
                        THEN Append(p2, ErrorsHeader \o JoinWith(<<>>, lists.errors))
                        ELSE p2
    IN IF result_parts = <<>> THEN NoOutputText ELSE JoinWith(<<"\n">>, result_parts)

\* conn.write of the eval request, of eval_clojure and of get_namespace.
Write(t) ==
    /\ pc[t] = "write"
    /\ conn[t] \in open
    /\ Send(conn[t], EvalMessage(IF op[t] = "ns" THEN NsCode ELSE code[t], session))
    /\ Asks(t, conn[t])
    /\ pc' = [pc EXCEPT ![t] = IF op[t] = "ns" THEN "value" ELSE "collect"]
    /\ UNCHANGED <<instanceVars, fsVars, conns, open, inbox, owner, issued, sent, negotiated,
                   threads, budget, tool, pattern, op, code, conn, current_dir, probed,
                   results, outputs, errors, namespace, got, did, took, port, ret, outcome,
                   afterClose, prevClosed, calls, faults>>

\* A failed write that drops the cached connection and session.
WriteFailsDrops(t) ==
    /\ pc[t] = "write"
    /\ Fails(conn[t])
    /\ Throw(t, ExcWrite)
    /\ connection' = None
    /\ session' = None
    /\ UNCHANGED <<repl_type, fsVars, netVars, threads, budget, tool, pattern, op, localVars,
                   port, afterClose, calls>>

WriteFails(t) ==
    /\ pc[t] = "write"
    /\ Fails(conn[t])
    /\ Throw(t, ExcWrite)
    /\ UNCHANGED <<instanceVars, fsVars, netVars, threads, budget, tool, pattern, op, localVars, port,
                   afterClose, calls>>

\* A loop that also ends with the first frame that has a value.
EvalReadEndsAtValue(t) ==
    /\ pc[t] = "collect"
    /\ conn[t] \in open
    /\ inbox[conn[t]] # <<>>
    /\ LET response == Head(inbox[conn[t]])
           lists == Collect([results |-> results[t], outputs |-> outputs[t],
                             errors |-> errors[t]], response)
       IN /\ results' = [results EXCEPT ![t] = lists.results]
          /\ outputs' = [outputs EXCEPT ![t] = lists.outputs]
          /\ errors' = [errors EXCEPT ![t] = lists.errors]
          /\ got' = [got EXCEPT ![t] = Append(@, response)]
          /\ IF IsDone(response) \/ "value" \in DOMAIN response
             THEN Finish(t, FormatResult(lists), "return")
             ELSE UNCHANGED endVars
    /\ Receive(conn[t])
    /\ Takes(t, conn[t])
    /\ UNCHANGED <<instanceVars, fsVars, conns, open, wire, log, issued, sent, negotiated,
                   threads, budget, tool, pattern, op, code, conn, current_dir, port, probed,
                   namespace, did, asked, afterClose, calls, faults>>

\* One iteration of the while loop: read a response, collect it, and with the
\* done status format the lists and return.
EvalRead(t) ==
    /\ pc[t] = "collect"
    /\ conn[t] \in open
    /\ inbox[conn[t]] # <<>>
    /\ LET response == Head(inbox[conn[t]])
           lists == Collect([results |-> results[t], outputs |-> outputs[t],
                             errors |-> errors[t]], response)
       IN /\ results' = [results EXCEPT ![t] = lists.results]
          /\ outputs' = [outputs EXCEPT ![t] = lists.outputs]
          /\ errors' = [errors EXCEPT ![t] = lists.errors]
          /\ got' = [got EXCEPT ![t] = Append(@, response)]
          /\ IF IsDone(response)
             THEN Finish(t, FormatResult(lists), "return")
             ELSE UNCHANGED endVars
    /\ Receive(conn[t])
    /\ Takes(t, conn[t])
    /\ UNCHANGED <<instanceVars, fsVars, conns, open, wire, log, issued, sent, negotiated,
                   threads, budget, tool, pattern, op, code, conn, current_dir, port, probed,
                   namespace, did, asked, afterClose, calls, faults>>

\* conn.read raises, in either operation.
ReadFails(t) ==
    /\ pc[t] \in {"collect", "value", "drain"}
    /\ Fails(conn[t])
    /\ Throw(t, ExcRead)
    /\ UNCHANGED <<instanceVars, fsVars, netVars, threads, budget, tool, pattern, op, localVars, port,
                   afterClose, calls>>

-----------------------------------------------------------------------------
(* get_namespace *)

\* response = conn.read(); namespace = response.get("value", "unknown")
NsRead(t) ==
    /\ pc[t] = "value"
    /\ conn[t] \in open
    /\ inbox[conn[t]] # <<>>
    /\ namespace' = [namespace EXCEPT ![t] = Get(Head(inbox[conn[t]]), "value", UnknownText)]
    /\ got' = [got EXCEPT ![t] = Append(@, Head(inbox[conn[t]]))]
    /\ Receive(conn[t])
    /\ Takes(t, conn[t])
    /\ pc' = [pc EXCEPT ![t] = "drain"]
    /\ UNCHANGED <<instanceVars, fsVars, conns, open, wire, log, issued, sent, negotiated,
                   threads, budget, tool, pattern, op, code, conn, current_dir, port, probed,
                   results, outputs, errors, did, asked, ret, outcome, afterClose, prevClosed,
                   calls, faults>>

\* A second read that is repeated until a frame holds done.
NsDrainUntilDone(t) ==
    /\ pc[t] = "drain"
    /\ conn[t] \in open
    /\ inbox[conn[t]] # <<>>
    /\ got' = [got EXCEPT ![t] = Append(@, Head(inbox[conn[t]]))]
    /\ Receive(conn[t])
    /\ Takes(t, conn[t])
    /\ IF IsDone(Head(inbox[conn[t]]))
       THEN Finish(t, NamespacePrefix \o namespace[t], "return")
       ELSE UNCHANGED endVars
    /\ UNCHANGED <<instanceVars, fsVars, conns, open, wire, log, issued, sent, negotiated,
                   threads, budget, tool, pattern, op, code, conn, current_dir, port, probed,
                   results, outputs, errors, namespace, did, asked, afterClose, calls, faults>>

\* conn.read(); return f"Current namespace: {namespace}"
NsDrain(t) ==
    /\ pc[t] = "drain"
    /\ conn[t] \in open
    /\ inbox[conn[t]] # <<>>
    /\ got' = [got EXCEPT ![t] = Append(@, Head(inbox[conn[t]]))]
    /\ Receive(conn[t])
    /\ Takes(t, conn[t])
    /\ Finish(t, NamespacePrefix \o namespace[t], "return")
    /\ UNCHANGED <<instanceVars, fsVars, conns, open, wire, log, issued, sent, negotiated,
                   threads, budget, tool, pattern, op, code, conn, current_dir, port, probed,
                   results, outputs, errors, namespace, did, asked, afterClose, calls, faults>>

-----------------------------------------------------------------------------
(* apropos and find_doc *)

\* A replace that stops after the first occurrence.
RECURSIVE ReplaceFirst(_, _, _)
ReplaceFirst(s, old, new) ==
    IF s = <<>> THEN <<>>
    ELSE IF Head(s) = old THEN new \o Tail(s)
    ELSE <<Head(s)>> \o ReplaceFirst(Tail(s), old, new)

RECURSIVE Replace(_, _, _)
\* s.replace(old, new), for a one-character old
Replace(s, old, new) ==
    IF s = <<>> THEN <<>>
    ELSE (IF Head(s) = old THEN new ELSE <<Head(s)>>) \o Replace(Tail(s), old, new)

\* escaped_pattern = pattern.replace('"', '\\"')
EscapedPattern(p) == Replace(p, "\"", <<"\\", "\"">>)

\* f'(apropos "{escaped_pattern}")'
AproposCode(p) ==
    <<"(", "a", "p", "r", "o", "p", "o", "s", " ", "\"">> \o EscapedPattern(p) \o <<"\"", ")">>

\* f'(find-doc "{escaped_pattern}")'
FindDocCode(p) ==
    <<"(", "f", "i", "n", "d", "-", "d", "o", "c", " ", "\"">> \o EscapedPattern(p)
        \o <<"\"", ")">>

\* The host calls apropos(p): return self.eval_clojure(code)
Apropos(t, p) ==
    /\ Enter(t, "eval", AproposCode(p))
    /\ tool' = [tool EXCEPT ![t] = "apropos"]
    /\ pattern' = [pattern EXCEPT ![t] = p]

\* The host calls find_doc(p): return self.eval_clojure(code)
FindDoc(t, p) ==
    /\ Enter(t, "eval", FindDocCode(p))
    /\ tool' = [tool EXCEPT ![t] = "find_doc"]
    /\ pattern' = [pattern EXCEPT ![t] = p]

-----------------------------------------------------------------------------
(* eval_clojure_simple *)

\* {"op": "eval", "code": code}
SimpleMessage(c) == [op |-> "eval", code |-> c]

\* The host calls eval_clojure_simple(c).
SimpleBegin(t, c) ==
    /\ t \in threads
    /\ pc[t] = "idle"
    /\ calls < budget.calls
    /\ calls' = calls + 1
    /\ op' = [op EXCEPT ![t] = "simple"]
    /\ tool' = [tool EXCEPT ![t] = "eval_clojure_simple"]
    /\ pattern' = [pattern EXCEPT ![t] = <<>>]
    /\ code' = [code EXCEPT ![t] = c]
    /\ pc' = [pc EXCEPT ![t] = "simple-open"]
    /\ conn' = [conn EXCEPT ![t] = None]
    /\ port' = [port EXCEPT ![t] = <<>>]
    /\ got' = [got EXCEPT ![t] = <<>>]
    /\ asked' = [asked EXCEPT ![t] = {}]
    /\ took' = [took EXCEPT ![t] = <<>>]
    /\ ret' = [ret EXCEPT ![t] = <<>>]
    /\ outcome' = [outcome EXCEPT ![t] = "none"]
    /\ UNCHANGED <<instanceVars, fsVars, netVars, threads, budget, current_dir, probed, results,
                   outputs, errors, namespace, did, afterClose, prevClosed, faults>>

\* with open(".nrepl-port", "r") as f: port = f.read().strip().rstrip('%')
SimpleOpen(t) ==
    /\ pc[t] = "simple-open"
    /\ LET port_path == PathJoin(cwd, PortFileClj)
       IN IF port_path \in DOMAIN files /\ files[port_path].readable
          THEN /\ port' = [port EXCEPT ![t] = StripPort(files[port_path].content)]
               /\ pc' = [pc EXCEPT ![t] = "simple-connect"]
               /\ UNCHANGED <<ret, outcome, prevClosed>>
          ELSE /\ Throw(t, IF port_path \in DOMAIN files THEN ExcOpen ELSE ExcNoFile)
               /\ UNCHANGED port
    /\ UNCHANGED <<instanceVars, fsVars, netVars, threads, budget, tool, pattern, op, localVars,
                   afterClose, calls, faults>>

\* conn = nrepl.connect(f"nrepl://localhost:{port}")
SimpleConnect(t) ==
    /\ pc[t] = "simple-connect"
    /\ Url(port[t]) = Url(ServerPort)
    /\ conns' = conns + 1
    /\ open' = open \cup {conns + 1}
    /\ wire' = Append(wire, <<>>)
    /\ log' = Append(log, <<>>)
    /\ inbox' = Append(inbox, <<>>)
    /\ owner' = Append(owner, <<>>)
    /\ conn' = [conn EXCEPT ![t] = conns + 1]
    /\ pc' = [pc EXCEPT ![t] = "simple-write"]
    /\ UNCHANGED <<instanceVars, fsVars, issued, sent, negotiated, threads, budget, tool,
                   pattern, op, code, current_dir, port, probed, results, outputs, errors,
                   namespace, got, did, asked, took, ret, outcome, afterClose, prevClosed,
                   calls, faults>>

\* nrepl.connect raises.
SimpleConnectFails(t) ==
    /\ pc[t] = "simple-connect"
    /\ Url(port[t]) # Url(ServerPort) \/ faults < budget.faults
    /\ faults' = IF Url(port[t]) = Url(ServerPort) THEN faults + 1 ELSE faults
    /\ Throw(t, ExcConnect)
    /\ UNCHANGED <<instanceVars, fsVars, netVars, threads, budget, tool, pattern, op, localVars,
                   port, afterClose, calls>>

\* conn.write({"op": "eval", "code": code})
SimpleWrite(t) ==
    /\ pc[t] = "simple-write"
    /\ conn[t] \in open
    /\ Send(conn[t], SimpleMessage(code[t]))
    /\ Asks(t, conn[t])
    /\ pc' = [pc EXCEPT ![t] = "simple-value"]
    /\ UNCHANGED <<instanceVars, fsVars, conns, open, inbox, owner, issued, sent, negotiated,
                   threads, budget, tool, pattern, op, code, conn, current_dir, probed,
                   results, outputs, errors, namespace, got, did, took, port, ret, outcome,
                   afterClose, prevClosed, calls, faults>>

\* response = conn.read(), whose value is the result, and then the second
\* conn.read(), for the done status.
SimpleRead(t) ==
    /\ pc[t] \in {"simple-value", "simple-drain"}
    /\ conn[t] \in open
    /\ inbox[conn[t]] # <<>>
    /\ got' = [got EXCEPT ![t] = Append(@, Head(inbox[conn[t]]))]
    /\ Receive(conn[t])
    /\ Takes(t, conn[t])
    /\ pc' = [pc EXCEPT ![t] = IF pc[t] = "simple-value" THEN "simple-drain" ELSE "simple-close"]
    /\ UNCHANGED <<instanceVars, fsVars, conns, open, wire, log, issued, sent, negotiated,
                   threads, budget, tool, pattern, op, code, conn, current_dir, port, probed,
                   results, outputs, errors, namespace, did, asked, ret, outcome, afterClose,
                   prevClosed, calls, faults>>

\* conn.write or conn.read raises: the except clause returns the error text.
SimpleFails(t) ==
    /\ pc[t] \in {"simple-write", "simple-value", "simple-drain"}
    /\ Fails(conn[t])
    /\ Throw(t, IF pc[t] = "simple-write" THEN ExcWrite ELSE ExcRead)
    /\ UNCHANGED <<instanceVars, fsVars, netVars, threads, budget, tool, pattern, op, localVars,
                   port, afterClose, calls>>

\* conn.close(); return result, with result = response.get("value", "No result")
SimpleClose(t) ==
    /\ pc[t] = "simple-close"
    /\ open' = open \ {conn[t]}
    /\ Finish(t, Get(got[t][1], "value", NoResultText), "return")
    /\ UNCHANGED <<instanceVars, fsVars, conns, wire, log, inbox, owner, issued, sent, negotiated,
                   threads, budget, tool, pattern, op, localVars, port, afterClose, calls,
                   faults>>

\* conn.close() raises, with the transport closed or still open.
SimpleCloseFails(t) ==
    /\ pc[t] = "simple-close"
    /\ Fails(conn[t])
    /\ \E closed \in BOOLEAN : open' = IF closed THEN open \ {conn[t]} ELSE open
    /\ Throw(t, ExcClose)
    /\ UNCHANGED <<instanceVars, fsVars, conns, wire, log, inbox, owner, issued, sent, negotiated,
                   threads, budget, tool, pattern, op, localVars, port, afterClose, calls>>

-----------------------------------------------------------------------------
(* _close_connection *)

\* A call of _close_connection begins.
BeginClose(t) ==
    /\ t \in threads
    /\ pc[t] = "idle"
    /\ calls < budget.calls
    /\ calls' = calls + 1
    /\ op' = [op EXCEPT ![t] = "close"]
    /\ pc' = [pc EXCEPT ![t] = "close"]
    /\ ret' = [ret EXCEPT ![t] = <<>>]
    /\ outcome' = [outcome EXCEPT ![t] = "none"]
    /\ afterClose' = [afterClose EXCEPT ![t] = prevClosed]
    /\ UNCHANGED <<instanceVars, fsVars, netVars, threads, budget, tool, pattern, localVars, port, prevClosed,
                   faults>>

\* A close that forgets to clear the session.
CloseKeepsSession(t) ==
    /\ pc[t] = "close"
    /\ IF connection # None
       THEN /\ open' = open \ {connection}
            /\ connection' = None
            /\ session' = session
            /\ Finish(t, ClosedText, "return")
       ELSE /\ Finish(t, NoActiveText, "return")
            /\ UNCHANGED <<open, connection, session>>
    /\ UNCHANGED <<repl_type, fsVars, conns, wire, log, inbox, owner, issued, sent, negotiated,
                   threads, budget, tool, pattern, op, localVars, port, afterClose, calls, faults>>

\* A close that forgets to clear the cached connection.
CloseKeepsConnection(t) ==
    /\ pc[t] = "close"
    /\ IF connection # None
       THEN /\ open' = open \ {connection}
            /\ connection' = connection
            /\ session' = None
            /\ Finish(t, ClosedText, "return")
       ELSE /\ Finish(t, NoActiveText, "return")
            /\ UNCHANGED <<open, connection, session>>
    /\ UNCHANGED <<repl_type, fsVars, conns, wire, log, inbox, owner, issued, sent, negotiated,
                   threads, budget, tool, pattern, op, localVars, port, afterClose, calls, faults>>

\* A close that clears the fields and leaves the transport open.
CloseLeavesOpen(t) ==
    /\ pc[t] = "close"
    /\ IF connection # None
       THEN /\ open' = open
            /\ connection' = None
            /\ session' = None
            /\ Finish(t, ClosedText, "return")
       ELSE /\ Finish(t, NoActiveText, "return")
            /\ UNCHANGED <<open, connection, session>>
    /\ UNCHANGED <<repl_type, fsVars, conns, wire, log, inbox, owner, issued, sent, negotiated,
                   threads, budget, tool, pattern, op, localVars, port, afterClose, calls, faults>>

\* if self._connection: close it, clear both fields; else report none.
Close(t) ==
    /\ pc[t] = "close"
    /\ IF connection # None
       THEN /\ open' = open \ {connection}
            /\ connection' = None
            /\ session' = None
            /\ Finish(t, ClosedText, "return")
       ELSE /\ Finish(t, NoActiveText, "return")
            /\ UNCHANGED <<open, connection, session>>
    /\ UNCHANGED <<repl_type, fsVars, conns, wire, log, inbox, owner, issued, sent, negotiated,
                   threads, budget, tool, pattern, op, localVars, port, afterClose, calls, faults>>

\* self._connection.close() raises, with the transport closed or still open.
CloseFails(t) ==
    /\ pc[t] = "close"
    /\ connection # None
    /\ Fails(connection)
    /\ \E closed \in BOOLEAN : open' = IF closed THEN open \ {connection} ELSE open
    /\ Throw(t, ExcClose)
    /\ UNCHANGED <<instanceVars, fsVars, conns, wire, log, inbox, owner, issued, sent, negotiated,
                   threads, budget, tool, pattern, op, localVars, port, afterClose, calls>>

-----------------------------------------------------------------------------
(* The nREPL server *)

\* The server answers the next request on connection c: a clone request with
\* one frame, an eval request with a stream of frames that ends with done.
Server(c) ==
    /\ c \in open
    /\ wire[c] # <<>>
    /\ wire' = [wire EXCEPT ![c] = Tail(@)]
    /\ IF Head(wire[c]).op = "clone"
       THEN \E sid \in {None, issued + 1} :
                /\ inbox' = [inbox EXCEPT ![c] = Append(@, CloneResponse(sid))]
                /\ owner' = [owner EXCEPT ![c] = Append(@, Len(log[c]) - Len(wire[c]) + 1)]
                /\ issued' = IF sid = None THEN issued ELSE issued + 1
                /\ UNCHANGED sent
       ELSE \E n \in 0..(budget.frames - sent) : \E stream \in EvalStreams(n) :
                /\ inbox' = [inbox EXCEPT ![c] = @ \o stream]
                /\ owner' = [owner EXCEPT ![c] =
                                 @ \o [k \in DOMAIN stream |-> Len(log[c]) - Len(wire[c]) + 1]]
                /\ sent' = sent + n
                /\ UNCHANGED issued
    /\ UNCHANGED <<instanceVars, fsVars, conns, open, log, negotiated, threads, budget, tool, pattern, pc, op,
                   localVars, port, ret, outcome, afterClose, prevClosed, calls, faults>>

\* The responses to an eval request of a server that hangs: n frames, none
\* with done.
StalledStreams(n) == {[k \in 1..n |-> Frame(ks[k], k)] : ks \in [1..n -> NonDoneKinds]}

\* The server takes the next request on connection c, an eval request, sends
\* some frames without done and then nothing more.
ServerStalls(c) ==
    /\ c \in open
    /\ wire[c] # <<>>
    /\ Head(wire[c]).op = "eval"
    /\ wire' = [wire EXCEPT ![c] = Tail(@)]
    /\ \E n \in 0..(budget.frames - sent) : \E stream \in StalledStreams(n) :
           /\ inbox' = [inbox EXCEPT ![c] = @ \o stream]
           /\ owner' = [owner EXCEPT ![c] =
                            @ \o [k \in DOMAIN stream |-> Len(log[c]) - Len(wire[c]) + 1]]
           /\ sent' = sent + n
    /\ UNCHANGED <<instanceVars, fsVars, conns, open, log, issued, negotiated, threads, budget,
                   tool, pattern, pc, op, localVars, port, ret, outcome, afterClose, prevClosed,
                   calls, faults>>

-----------------------------------------------------------------------------
(* The specifications *)

Codes == {<<"(", "f", ")">>}

\* The state after construction, whatever the file system holds.
Constructed ==
    /\ connection = None
    /\ session = None
    /\ conns = 0
    /\ open = {}
    /\ wire = <<>>
    /\ log = <<>>
    /\ inbox = <<>>
    /\ owner = <<>>
    /\ issued = 0
    /\ sent = 0
    /\ negotiated = <<>>
    /\ pc = [t \in Threads |-> "idle"]
    /\ op = [t \in Threads |-> "none"]
    /\ code = [t \in Threads |-> <<>>]
    /\ conn = [t \in Threads |-> None]
    /\ current_dir = [t \in Threads |-> <<>>]
    /\ port = [t \in Threads |-> <<>>]
    /\ probed = [t \in Threads |-> <<>>]
    /\ results = [t \in Threads |-> <<>>]
    /\ outputs = [t \in Threads |-> <<>>]
    /\ errors = [t \in Threads |-> <<>>]
    /\ namespace = [t \in Threads |-> <<>>]
    /\ got = [t \in Threads |-> <<>>]
    /\ tool = [t \in Threads |-> "none"]
    /\ pattern = [t \in Threads |-> <<>>]
    /\ asked = [t \in Threads |-> {}]
    /\ took = [t \in Threads |-> <<>>]
    /\ did = [t \in Threads |-> NoSteps]
    /\ ret = [t \in Threads |-> <<>>]
    /\ outcome = [t \in Threads |-> "none"]
    /\ afterClose = [t \in Threads |-> FALSE]
    /\ prevClosed = FALSE
    /\ calls = 0
    /\ faults = 0

\* The project directory, where the server writes its port files.
ProjectDir == DirAt(1)

\* The file systems of the runs of the toolbox: no port file, the port files
\* of a running server in the project directory, or port files nobody can read.
ProjectFiles ==
    {<<>>,
     PathJoin(ProjectDir, PortFileClj) :> Readable(ServerPort \o <<"\n">>),
     PathJoin(ProjectDir, PortFileClj) :> Unreadable}

Init ==
    /\ Constructed
    /\ threads = {1}
    /\ budget = [calls |-> MaxCalls, frames |-> FewFrames, faults |-> MaxFaults]
    /\ repl_type \in {"clj", "cljs"}
    /\ cwd = DirAt(MaxDepth)
    /\ files \in ProjectFiles

Next ==
    \/ \E t \in Threads :
        \/ \E c \in Codes : Begin(t, "eval", c)
        \/ Begin(t, "ns", NsCode)
        \/ BeginClose(t)
        \/ Locate(t)
        \/ Connect(t)
        \/ ConnectFails(t)
        \/ CloneWrite(t)
        \/ CloneWriteFails(t)
        \/ CloneRead(t)
        \/ CloneReadFails(t)
        \/ Write(t)
        \/ WriteFails(t)
        \/ EvalRead(t)
        \/ NsRead(t)
        \/ NsDrain(t)
        \/ ReadFails(t)
        \/ Close(t)
        \/ CloseFails(t)
    \/ \E c \in 1..conns : Server(c)

Spec == Init /\ [][Next]_vars

\* Runs of eval_clojure alone, with longer responses and no failures.
InitEval ==
    /\ Constructed
    /\ threads = {1}
    /\ budget = [calls |-> EvalCalls, frames |-> MaxFrames, faults |-> 0]
    /\ repl_type \in {"clj", "cljs"}
    /\ cwd = DirAt(MaxDepth)
    /\ files \in ProjectFiles

NextEval ==
    \/ \E t \in Threads :
        \/ \E c \in Codes : Begin(t, "eval", c)
        \/ Locate(t)
        \/ Connect(t)
        \/ CloneWrite(t)
        \/ CloneRead(t)
        \/ Write(t)
        \/ EvalRead(t)
    \/ \E c \in 1..conns : Server(c)

SpecEval == InitEval /\ [][NextEval]_vars

\* Runs of eval_clojure and get_namespace, one call after the other, with longer
\* responses and no failures.
InitCalls ==
    /\ Constructed
    /\ threads = {1}
    /\ budget = [calls |-> EvalCalls, frames |-> MaxFrames, faults |-> 0]
    /\ repl_type = "clj"
    /\ cwd = ProjectDir
    /\ files = PathJoin(ProjectDir, PortFileClj) :> Readable(ServerPort \o <<"\n">>)

NextCalls ==
    \/ \E t \in Threads :
        \/ \E c \in Codes : Begin(t, "eval", c)
        \/ Begin(t, "ns", NsCode)
        \/ Locate(t)
        \/ Connect(t)
        \/ CloneWrite(t)
        \/ CloneRead(t)
        \/ Write(t)
        \/ EvalRead(t)
        \/ NsRead(t)
        \/ NsDrain(t)
    \/ \E c \in 1..conns : Server(c)

SpecCalls == InitCalls /\ [][NextCalls]_vars

\* One call of eval_clojure against a server that may hang, with no failures. A
\* thread blocked in conn.read() gets the next frame once the connection holds one.
InitLive ==
    /\ Constructed
    /\ threads = {1}
    /\ budget = [calls |-> 1, frames |-> MaxFrames, faults |-> 0]
    /\ repl_type = "clj"
    /\ cwd = ProjectDir
    /\ files = PathJoin(ProjectDir, PortFileClj) :> Readable(ServerPort \o <<"\n">>)

NextLive ==
    \/ \E t \in Threads :
        \/ \E c \in Codes : Begin(t, "eval", c)
        \/ Locate(t)
        \/ Connect(t)
        \/ CloneWrite(t)
        \/ CloneRead(t)
        \/ Write(t)
        \/ EvalRead(t)
    \/ \E c \in 1..conns : Server(c)
    \/ \E c \in 1..conns : ServerStalls(c)

SpecLive == InitLive /\ [][NextLive]_vars /\ WF_vars(\E t \in Threads : EvalRead(t))

\* Runs of eval_clojure called by two threads of the host on one instance, one
\* call each, with no failures.
InitThreads ==
    /\ Constructed
    /\ threads = Threads
    /\ budget = [calls |-> Cardinality(Threads), frames |-> 0, faults |-> 0]
    /\ repl_type = "clj"
    /\ cwd = ProjectDir
    /\ files = PathJoin(ProjectDir, PortFileClj) :> Readable(ServerPort \o <<"\n">>)

NextThreads ==
    \/ \E t \in Threads :
        \/ \E c \in Codes : Begin(t, "eval", c)
        \/ Locate(t)
        \/ Connect(t)
        \/ CloneWrite(t)
        \/ CloneRead(t)
        \/ Write(t)
        \/ EvalRead(t)
    \/ \E c \in 1..conns : Server(c)

SpecThreads == InitThreads /\ [][NextThreads]_vars

\* Runs of eval_clojure_simple, next to calls of eval_clojure on an instance.
InitSimple ==
    /\ Constructed
    /\ threads = {1}
    /\ budget = [calls |-> EvalCalls, frames |-> FewFrames, faults |-> MaxFaults]
    /\ repl_type = "clj"
    /\ cwd \in {ProjectDir, DirAt(MaxDepth)}
    /\ files \in ProjectFiles

NextSimple ==
    \/ \E t \in Threads :
        \/ \E c \in Codes : SimpleBegin(t, c)
        \/ SimpleOpen(t)
        \/ SimpleConnect(t)
        \/ SimpleConnectFails(t)
        \/ SimpleWrite(t)
        \/ SimpleRead(t)
        \/ SimpleFails(t)
        \/ SimpleClose(t)
        \/ SimpleCloseFails(t)
        \/ \E c \in Codes : Begin(t, "eval", c)
        \/ Locate(t)
        \/ Connect(t)
        \/ CloneWrite(t)
        \/ CloneRead(t)
        \/ Write(t)
        \/ EvalRead(t)
    \/ \E c \in 1..conns : Server(c)

SpecSimple == InitSimple /\ [][NextSimple]_vars

-----------------------------------------------------------------------------
(* Runs of _read_nrepl_port alone, over file systems and port file contents. *)

\* What a directory holds: no port file, or one of the two, readable or not.
Holdings == {"none", "clj", "cljs", "clj-unreadable", "cljs-unreadable"}

\* The content of the port file in the directory d levels below the root.
PortAt(d) == <<"7", Digit(d + 1), "\n">>

RECURSIVE TreeFiles(_, _)
\* The files of the directories 0..d that hold what has[d] says.
TreeFiles(has, d) ==
    IF d < 0 THEN <<>>
    ELSE (CASE has[d] = "none" -> <<>>
            [] has[d] = "clj" -> PathJoin(DirAt(d), PortFileClj) :> Readable(PortAt(d))
            [] has[d] = "cljs" -> PathJoin(DirAt(d), PortFileCljs) :> Readable(PortAt(d))
            [] has[d] = "clj-unreadable" -> PathJoin(DirAt(d), PortFileClj) :> Unreadable
            [] has[d] = "cljs-unreadable" -> PathJoin(DirAt(d), PortFileCljs) :> Unreadable)
         @@ TreeFiles(has, d - 1)

\* The characters of a port file.
PortChars == {"7", "8", " ", "\n", "%"}

\* The contents of a port file: every text of up to MaxLen characters.
Contents == UNION {[1..n -> PortChars] : n \in 0..MaxLen}

InitPort ==
    /\ Constructed
    /\ threads = {1}
    /\ budget = [calls |-> 1, frames |-> 0, faults |-> 0]
    /\ repl_type \in {"clj", "cljs"}
    /\ \/ /\ cwd \in Dirs
          /\ files \in {TreeFiles(has, MaxDepth) : has \in [0..MaxDepth -> Holdings]}
       \/ /\ cwd = DirAt(1)
          /\ files \in {PathJoin(cwd, PortFile(repl_type)) :> Readable(c) : c \in Contents}

NextPort == \E t \in Threads : BeginLocate(t) \/ Locate(t)

SpecPort == InitPort /\ [][NextPort]_vars

-----------------------------------------------------------------------------
(* Runs of apropos and find_doc, over the patterns. *)

\* The characters of a pattern: a letter, the double quote and the backslash.
PatternChars == {"a", "\"", "\\"}

\* The patterns: every text of up to MaxPattern characters.
Patterns == UNION {[1..n -> PatternChars] : n \in 0..MaxPattern}

InitTools ==
    /\ Constructed
    /\ threads = {1}
    /\ budget = [calls |-> 1, frames |-> 0, faults |-> 0]
    /\ repl_type \in {"clj", "cljs"}
    /\ cwd = ProjectDir
    /\ files = PathJoin(ProjectDir, PortFile(repl_type)) :> Readable(ServerPort \o <<"\n">>)

NextTools ==
    \/ \E t \in Threads :
        \/ \E p \in Patterns : Apropos(t, p)
        \/ \E p \in Patterns : FindDoc(t, p)
        \/ Locate(t)
        \/ Connect(t)
        \/ CloneWrite(t)
        \/ CloneRead(t)
        \/ Write(t)
        \/ EvalRead(t)
    \/ \E c \in 1..conns : Server(c)

SpecTools == InitTools /\ [][NextTools]_vars

-----------------------------------------------------------------------------
(* Notions the properties are stated with. *)

\* sub occurs in s
Contains(s, sub) ==
    \E i \in 0..(Len(s) - Len(sub)) : SubSeq(s, i + 1, i + Len(sub)) = sub

\* Directory a is d or lies above it.
IsAncestor(a, d) ==
    \/ a = <<"/">>
    \/ /\ Len(a) <= Len(d)
       /\ SubSeq(d, 1, Len(a)) = a
       /\ Len(a) = Len(d) \/ d[Len(a) + 1] = "/"

\* The working directory and the directories above it.
Ancestors == {a \in Dirs : IsAncestor(a, cwd)}

\* The path of the port file of a REPL type in directory a.
MarkerIn(a, type) ==
    IF a = <<"/">> THEN a \o PortFile(type) ELSE a \o <<"/">> \o PortFile(type)

\* The working directory or those above it that hold the port file.
Holders == {a \in Ancestors : MarkerIn(a, repl_type) \in DOMAIN files}

\* The deepest directory of a set of ancestors.
Nearest(H) == CHOOSE a \in H : \A b \in H : Len(b) <= Len(a)

\* probes is the walk from the working directory up to directory stop: every
\* ancestor from cwd to stop, once, the deeper first.
IsWalkTo(probes, stop) ==
    /\ {probes[i] : i \in 1..Len(probes)} = {a \in Ancestors : Len(a) >= Len(stop)}
    /\ \A i, j \in 1..Len(probes) : i < j => Len(probes[i]) > Len(probes[j])

\* A call of _read_nrepl_port on its own has ended.
LocateEnded(t) == t \in threads /\ op[t] = "locate" /\ pc[t] = "idle"

\* A call of operation o by thread t has ended.
Ended(t, o) == t \in threads /\ op[t] = o /\ pc[t] = "idle"

\* The positions of the requests with operation o in a log.
Requests(l, o) == {i \in 1..Len(l) : l[i].op = o}

\* The texts a call has collected.
Collected(t) ==
    {results[t][i] : i \in 1..Len(results[t])}
        \cup {outputs[t][i] : i \in 1..Len(outputs[t])}
        \cup {errors[t][i] : i \in 1..Len(errors[t])}

\* str(e) of the exceptions that reach the except clause of eval_clojure.
Failures ==
    {ExcConnect, ExcWrite, ExcRead, NoFileMessage(repl_type)}
        \cup {UnreadableMessage(MarkerIn(a, repl_type)) : a \in Dirs}

RECURSIVE Field(_, _)
\* The values of a key in the frames that have it, in the order of the frames.
Field(frames, key) ==
    IF frames = <<>> THEN <<>>
    ELSE LET front == Field(SubSeq(frames, 1, Len(frames) - 1), key)
             last == frames[Len(frames)]
         IN IF key \in DOMAIN last THEN Append(front, last[key]) ELSE front

\* The status of a frame holds done.
HasDone(frame) == \E k \in DOMAIN frame : k = "status" /\ "done" \in frame[k]

RECURSIVE Concat(_)
\* The texts of a list one after the other.
Concat(texts) ==
    IF texts = <<>> THEN <<>>
    ELSE Concat(SubSeq(texts, 1, Len(texts) - 1)) \o texts[Len(texts)]

RECURSIVE Spaced(_)
\* The texts of a non-empty list with one space between neighbours.
Spaced(texts) ==
    IF Len(texts) = 1 THEN texts[1]
    ELSE Spaced(SubSeq(texts, 1, Len(texts) - 1)) \o <<" ">> \o texts[Len(texts)]

-----------------------------------------------------------------------------
(* C1: session reuse *)

\* C1: on a connection whose clone response was read, the log holds exactly
\* one clone request and every eval request carries the session value read
\* from that response; and while that connection is open no newer connection
\* exists, so the calls made without a close in between all use it.
C1_OneCloneOneSession ==
    \A c \in DOMAIN negotiated :
        /\ Cardinality(Requests(log[c], "clone")) = 1
        /\ \A i \in Requests(log[c], "eval") : log[c][i].session = negotiated[c]
        /\ c \in open => c = conns

\* Two eval requests were written on one connection with a session id.
C1_Witness ==
    \E c \in DOMAIN negotiated :
        negotiated[c] # None /\ Cardinality(Requests(log[c], "eval")) >= 2

-----------------------------------------------------------------------------
(* C2: close *)

\* The step that ends a call of _close_connection by thread t.
CloseStep(t) == pc[t] = "close" /\ pc'[t] = "idle"

\* C2 as stated: with a connection cached, close closes the transport, clears
\* the connection and the session and returns the closed text; with none it
\* returns the no-active-connection text and changes nothing.
C2_CloseAlwaysCloses ==
    [][\A t \in threads : CloseStep(t) =>
          IF connection # None
          THEN /\ connection \notin open'
               /\ connection' = None
               /\ session' = None
               /\ ret'[t] = ClosedText
          ELSE /\ ret'[t] = NoActiveText
               /\ UNCHANGED <<connection, session, open>>]_vars

\* C2 amended: with a connection cached, close either closes the transport,
\* clears the connection and the session and returns the closed text, or, when
\* closing the transport raises, returns the close error text and leaves the
\* connection and the session cached; with none cached it returns the
\* no-active-connection text and changes nothing. A close that follows a close
\* that returned the closed text returns the no-active-connection text.
C2_CloseClosesOrReports ==
    /\ [][\A t \in threads : CloseStep(t) =>
            IF connection # None
            THEN \/ /\ connection \notin open'
                    /\ connection' = None
                    /\ session' = None
                    /\ ret'[t] = ClosedText
                 \/ /\ ret'[t] = CloseErrorPrefix \o ExcClose
                    /\ UNCHANGED <<connection, session>>
            ELSE /\ ret'[t] = NoActiveText
                 /\ UNCHANGED <<connection, session, open>>]_vars
    /\ [](\A t \in threads : (Ended(t, "close") /\ afterClose[t]) => ret[t] = NoActiveText)

\* A close has followed a close that closed a connection.
C2_Witness == \E t \in threads : Ended(t, "close") /\ afterClose[t]

-----------------------------------------------------------------------------
(* C3: aggregation *)

\* C3: the three lists of eval_clojure are the value, out and err fields of the
\* frames it has read, in the order read; the frames read are the frames of
\* the response from its first on, none skipped; while the loop runs no frame
\* read holds done, and the call returns with the first frame that does.
C3_ListsAreTheFramesInOrder ==
    \A t \in threads : op[t] = "eval" =>
        /\ results[t] = Field(got[t], "value")
        /\ outputs[t] = Field(got[t], "out")
        /\ errors[t] = Field(got[t], "err")
        /\ \A i \in 1..Len(got[t]) : \A k \in DOMAIN got[t][i] \ {"status"} :
               got[t][i][k][2] = Digit(i)
        /\ \A i \in 1..(Len(got[t]) - 1) : ~HasDone(got[t][i])
        /\ pc[t] = "collect" => \A i \in 1..Len(got[t]) : ~HasDone(got[t][i])
        /\ (pc[t] = "idle" /\ outcome[t] = "return") =>
               got[t] # <<>> /\ HasDone(got[t][Len(got[t])])

\* An evaluation has returned after frames that held two keys or more and a
\* done frame that held a value.
C3_Witness ==
    \E t \in threads :
        /\ Ended(t, "eval")
        /\ outcome[t] = "return"
        /\ Len(got[t]) >= 3
        /\ Len(results[t]) >= 2
        /\ "value" \in DOMAIN got[t][Len(got[t])]
        /\ \E i \in 1..Len(got[t]) : {"out", "err"} \subseteq DOMAIN got[t][i]

-----------------------------------------------------------------------------
(* C4: formatting *)

\* The text the specification gives for three lists.
Formatted(o, r, e) ==
    LET O == OutputHeader \o Concat(o)
        R == ResultHeader \o Spaced(r)
        E == ErrorsHeader \o Concat(e)
        NL == <<"\n">>
    IN CASE o # <<>> /\ r # <<>> /\ e # <<>> -> O \o NL \o R \o NL \o E
         [] o # <<>> /\ r # <<>> /\ e = <<>> -> O \o NL \o R
         [] o # <<>> /\ r = <<>> /\ e # <<>> -> O \o NL \o E
         [] o # <<>> /\ r = <<>> /\ e = <<>> -> O
         [] o = <<>> /\ r # <<>> /\ e # <<>> -> R \o NL \o E
         [] o = <<>> /\ r # <<>> /\ e = <<>> -> R
         [] o = <<>> /\ r = <<>> /\ e # <<>> -> E
         [] o = <<>> /\ r = <<>> /\ e = <<>> -> NoOutputText

\* C4: the text a completed evaluation returns is the sections Output, Result
\* and Errors of the non-empty lists, in that order, joined by one newline, the
\* outputs and the errors concatenated and the values joined by one space; with
\* three empty lists it is the fixed sentence, which is not empty.
C4_TextIsTheSections ==
    \A t \in threads : (Ended(t, "eval") /\ outcome[t] = "return") =>
        /\ ret[t] = Formatted(outputs[t], results[t], errors[t])
        /\ ret[t] # <<>>

\* A completed evaluation returned all three sections, with two values.
C4_Witness ==
    \E t \in threads :
        /\ Ended(t, "eval")
        /\ outcome[t] = "return"
        /\ Len(results[t]) >= 2
        /\ Len(outputs[t]) >= 2
        /\ errors[t] # <<>>

-----------------------------------------------------------------------------
(* C5: errors become text *)

\* C5: eval_clojure never raises to its caller; a step in which a library call
\* fails ends the call at once; and a call that ended in its except clause
\* returned the error prefix followed by the text of the exception, with none
\* of the texts collected before the failure in it.
C5_FailuresBecomeText ==
    /\ [](\A t \in threads : Ended(t, "eval") =>
            /\ outcome[t] \in {"return", "except"}
            /\ outcome[t] = "except" =>
                /\ \E e \in Failures : ret[t] = EvalErrorPrefix \o e
                /\ \A x \in Collected(t) : ~Contains(ret[t], x))
    /\ [][\A t \in threads : (op[t] = "eval" /\ pc[t] # "idle" /\ faults' # faults) =>
            pc'[t] = "idle" /\ outcome'[t] = "except"]_vars

\* An evaluation failed after it had collected text.
C5_Witness ==
    \E t \in threads : Ended(t, "eval") /\ outcome[t] = "except" /\ Collected(t) # {}

-----------------------------------------------------------------------------
(* C6: no session id *)

\* C6 as stated: when the clone response read on a connection had no
\* new-session, the session stays unset and every eval request written on that
\* connection has no session key.
C6_SessionKeyOmitted ==
    \A c \in DOMAIN negotiated : negotiated[c] = None =>
        /\ connection = c => session = None
        /\ \A i \in Requests(log[c], "eval") : "session" \notin DOMAIN log[c][i]

-----------------------------------------------------------------------------
(* C7: reconnect after close *)

\* C7: a call of eval_clojure that begins right after a close that closed a
\* connection starts with the port discovery and uses no connection but one it
\* opens itself; it writes its eval request only on that new connection, after
\* a clone request whose response it has read, and the request carries the
\* session value of that response, which is no session id of an older connection.
C7_ReconnectAfterClose ==
    \A t \in threads : (t \in threads /\ op[t] = "eval" /\ afterClose[t]) =>
        LET c == did[t].opened
        IN /\ pc[t] \notin {"locate", "idle"} => did[t].discovered
           /\ pc[t] \in {"clone", "session", "write", "collect"} => c # None
           /\ conn[t] \in {None, c}
           /\ c = None => (pc[t] = "idle" => outcome[t] = "except" /\ got[t] = <<>>)
           /\ c # None =>
               /\ \A older \in 1..(c - 1) : older \notin open
               /\ \A i \in Requests(log[c], "eval") :
                   /\ did[t].cloned
                   /\ c \in DOMAIN negotiated
                   /\ log[c][1].op = "clone"
                   /\ log[c][i].session = negotiated[c]
                   /\ \A older \in DOMAIN negotiated :
                          (older # c /\ negotiated[older] # None)
                              => log[c][i].session # negotiated[older]

\* An evaluation that began right after a close has completed on a new
\* connection, whose session differs from that of the closed one.
C7_Witness ==
    \E t \in threads :
        /\ Ended(t, "eval")
        /\ afterClose[t]
        /\ outcome[t] = "return"
        /\ did[t].opened \in DOMAIN negotiated
        /\ negotiated[did[t].opened] # None
        /\ \E older \in DOMAIN negotiated : older # did[t].opened /\ negotiated[older] # None

-----------------------------------------------------------------------------
(* C8: a single connection *)

\* C8: at most one connection is open at any time, and it is the cached one;
\* a connection is opened only by a step that finds none cached.
C8_AtMostOneOpen ==
    /\ [](Cardinality(open) <= 1 /\ open \subseteq {connection})
    /\ [][conns' # conns => connection = None /\ open = {}]_vars

\* A second connection is open after the first was closed.
C8_Witness == conns >= 2 /\ Cardinality(open) = 1 /\ connection = conns

-----------------------------------------------------------------------------
(* C9: port discovery walks upward *)

\* C9 as stated: _read_nrepl_port tests the working directory and then each
\* parent in turn; it returns the port of the nearest directory that holds the
\* port file, and with no such directory it stops at the root and raises an
\* error that names the port file.
C9_NearestPortReturned ==
    \A t \in threads : LocateEnded(t) =>
        IF Holders # {}
        THEN /\ outcome[t] = "return"
             /\ ret[t] = StripPort(files[MarkerIn(Nearest(Holders), repl_type)].content)
             /\ IsWalkTo(probed[t], Nearest(Holders))
        ELSE /\ outcome[t] = "raise"
             /\ Contains(ret[t], PortFile(repl_type))
             /\ IsWalkTo(probed[t], <<"/">>)

\* C9 amended: the same, except that a nearest port file that cannot be read
\* ends the search there with an error that names the path of that file; and
\* while the search runs, the directory to test next is an ancestor not tested
\* yet, so the search ends at the root at the latest.
C9_NearestReadablePortReturned ==
    \A t \in threads :
        /\ LocateEnded(t) =>
            IF Holders # {}
            THEN LET path == MarkerIn(Nearest(Holders), repl_type)
                 IN /\ IsWalkTo(probed[t], Nearest(Holders))
                    /\ IF files[path].readable
                       THEN outcome[t] = "return" /\ ret[t] = StripPort(files[path].content)
                       ELSE outcome[t] = "raise" /\ Contains(ret[t], path)
            ELSE /\ outcome[t] = "raise"
                 /\ Contains(ret[t], PortFile(repl_type))
                 /\ IsWalkTo(probed[t], <<"/">>)
        /\ (t \in threads /\ pc[t] = "locate") =>
            /\ current_dir[t] \in Ancestors
            /\ \A i \in 1..Len(probed[t]) : Len(probed[t][i]) > Len(current_dir[t])
            /\ Holders # {} => Len(current_dir[t]) >= Len(Nearest(Holders))

\* The port is returned from a directory two levels or more above the working
\* directory.
C9_Witness ==
    \E t \in threads : LocateEnded(t) /\ outcome[t] = "return" /\ Len(probed[t]) >= 3

-----------------------------------------------------------------------------
(* C10: the port is stripped *)

IsDigit(ch) == ch \in {"0", "1", "2", "3", "4", "5", "6", "7", "8", "9"}

\* content is a decimal number, with whitespace around it and after it at most
\* one '%', itself with whitespace around it.
IsPortText(content) ==
    LET n == Len(content)
    IN \E a \in 0..n : \E b \in (a + 1)..n : \E p \in b..n :
        /\ \A x \in 1..a : content[x] \in Whitespace
        /\ \A x \in (a + 1)..b : IsDigit(content[x])
        /\ \A x \in (b + 1)..p : content[x] \in Whitespace
        /\ p = n \/ (content[p + 1] = "%" /\ \A x \in (p + 2)..n : content[x] \in Whitespace)

\* C10 as stated: for a port file that holds a decimal number, with whitespace
\* around it and optionally a single trailing '%', the locator returns exactly
\* the digits.
C10_PortIsTheDigits ==
    \A t \in threads :
        (LocateEnded(t) /\ outcome[t] = "return"
            /\ IsPortText(files[MarkerIn(Nearest(Holders), repl_type)].content))
        => ret[t] = SelectSeq(files[MarkerIn(Nearest(Holders), repl_type)].content, IsDigit)

-----------------------------------------------------------------------------
\* The number of double quotes among the first n characters of p.
Quotes(p, n) == Cardinality({i \in 1..n : p[i] = "\""})

\* e is p with every double quote replaced by a backslash and a double quote,
\* and every other character where it was, that many places further on.
IsQuoteEscaped(e, p) ==
    /\ Len(e) = Len(p) + Quotes(p, Len(p))
    /\ \A i \in 1..Len(p) :
          LET at == i + Quotes(p, i - 1)
          IN IF p[i] = "\"" THEN e[at] = "\\" /\ e[at + 1] = "\"" ELSE e[at] = p[i]

\* x is the expression (name "e") for an e that is p escaped.
IsCallOn(x, name, p) ==
    LET open_ == <<"(">> \o name \o <<" ", "\"">>
        n == Len(open_)
    IN /\ Len(x) >= n + 2
       /\ SubSeq(x, 1, n) = open_
       /\ SubSeq(x, Len(x) - 1, Len(x)) = <<"\"", ")">>
       /\ IsQuoteEscaped(SubSeq(x, n + 1, Len(x) - 2), p)

\* C11: apropos(P) evaluates exactly (apropos "P'") and find_doc(P) exactly
\* (find-doc "P'"), P' being P with a backslash put before every double quote:
\* that expression is the code of the call and of the eval request it writes.
C11_PatternIsQuoteEscaped ==
    \A t \in threads :
        /\ tool[t] = "apropos" => IsCallOn(code[t], <<"a", "p", "r", "o", "p", "o", "s">>, pattern[t])
        /\ tool[t] = "find_doc"
              => IsCallOn(code[t], <<"f", "i", "n", "d", "-", "d", "o", "c">>, pattern[t])
        /\ tool[t] \in {"apropos", "find_doc"} /\ conn[t] \in 1..conns
              => \A i \in 1..Len(wire[conn[t]]) :
                     wire[conn[t]][i].op = "eval" => wire[conn[t]][i].code = code[t]

\* An apropos with two double quotes in its pattern has written its eval request.
C11_Witness ==
    \E t \in threads :
        /\ tool[t] = "apropos"
        /\ Quotes(pattern[t], Len(pattern[t])) = 2
        /\ pc[t] = "collect"
        /\ wire[conn[t]] # <<>>
        /\ Head(wire[conn[t]]).code = code[t]

-----------------------------------------------------------------------------
(* C12: the session and its connection *)

\* C12: a session is cached only with a connection cached, and the cached
\* session is the new-session value read from the clone response on the cached
\* connection, which no earlier connection was given.
C12_SessionIsOfCachedConnection ==
    session # None =>
        /\ connection # None
        /\ connection \in DOMAIN negotiated
        /\ negotiated[connection] = session
        /\ \A c \in DOMAIN negotiated : c # connection => negotiated[c] # session

\* A second connection is cached with its session, after a first one had its own.
C12_Witness ==
    /\ connection = 2
    /\ session # None
    /\ 1 \in DOMAIN negotiated
    /\ negotiated[1] # None
    /\ 1 \notin open

-----------------------------------------------------------------------------
(* C13: only close tears down *)

\* Thread t runs a call of eval_clojure or get_namespace that found a
\* connection cached when it began.
RunsOnCached(t) ==
    /\ op[t] \in {"eval", "ns"}
    /\ pc[t] \in {"write", "collect", "value", "drain"}
    /\ did[t] = NoSteps

\* C13: no step of a call of eval_clojure or get_namespace made with a
\* connection cached, its failures included, changes the cached connection or
\* the cached session; and a cached connection is replaced by nothing and
\* cleared by a close that returns the closed text alone.
C13_OnlyCloseTearsDown ==
    [][/\ \A t \in threads :
              (RunsOnCached(t) \/ (pc[t] = "idle" /\ pc'[t] = "write"))
                  => UNCHANGED <<connection, session>>
       /\ (connection # None /\ connection' # connection)
              => /\ connection' = None
                 /\ \E t \in threads :
                        CloseStep(t) /\ outcome'[t] = "return" /\ ret'[t] = ClosedText]_vars

\* A call made with a connection cached has failed, and the connection and
\* its session are still cached.
C13_Witness ==
    \E t \in threads :
        /\ op[t] \in {"eval", "ns"}
        /\ pc[t] = "idle"
        /\ outcome[t] = "except"
        /\ did[t] = NoSteps
        /\ conn[t] # None
        /\ connection = conn[t]
        /\ session # None

-----------------------------------------------------------------------------
(* C14: get_namespace *)

\* The eval requests among the requests a call has written.
EvalsAsked(t) == {a \in asked[t] : log[a[1]][a[2]].op = "eval"}

\* C14: get_namespace writes one eval request, with the code *ns* and the
\* cached session; it reads no frame before, one frame after the first read
\* and two when it returns, whatever they hold; the text returned is the
\* prefix and the value of the first frame, or unknown when it has none.
C14_NamespaceReadsTwoFrames ==
    \A t \in threads : op[t] = "ns" =>
        /\ pc[t] = "value"
              => /\ got[t] = <<>>
                 /\ wire[conn[t]] # <<>>
                       => wire[conn[t]][Len(wire[conn[t]])] = EvalMessage(NsCode, session)
        /\ pc[t] = "drain" => Len(got[t]) = 1
        /\ pc[t] \in {"value", "drain"} \/ (pc[t] = "idle" /\ outcome[t] = "return")
              => /\ Cardinality(EvalsAsked(t)) = 1
                 /\ \A a \in EvalsAsked(t) : log[a[1]][a[2]].session = session
        /\ pc[t] = "idle" /\ outcome[t] = "return"
              => /\ Len(got[t]) = 2
                 /\ ret[t] = NamespacePrefix \o
                        (IF \E k \in DOMAIN got[t][1] : k = "value"
                         THEN got[t][1].value ELSE UnknownText)

\* get_namespace has returned the unknown text after a first frame without a
\* value and a second frame without done, and left frames unread.
C14_Witness ==
    \E t \in threads :
        /\ Ended(t, "ns")
        /\ outcome[t] = "return"
        /\ ret[t] = NamespacePrefix \o UnknownText
        /\ ~HasDone(got[t][2])
        /\ inbox[conn[t]] # <<>>

-----------------------------------------------------------------------------
(* C15: completion *)

\* A frame with done waits on the connection of thread t.
DoneWaits(t) == \E i \in 1..Len(inbox[conn[t]]) : HasDone(inbox[conn[t]][i])

\* The server has taken every request on the connection of thread t and no
\* frame with done waits there.
Stalled(t) == pc[t] = "collect" /\ wire[conn[t]] = <<>> /\ ~DoneWaits(t)

\* C15: eval_clojure returns from its try block only with a frame with done
\* as the last frame read; once the server has sent such a frame the call
\* returns; and when the server has answered without one and sends no more,
\* the call stays in its loop for ever.
C15_ReturnsWithDoneOnly ==
    /\ [](\A t \in threads :
            (Ended(t, "eval") /\ outcome[t] = "return")
                => got[t] # <<>> /\ HasDone(got[t][Len(got[t])]))
    /\ \A t \in Threads :
          (pc[t] = "collect" /\ DoneWaits(t)) ~> (pc[t] = "idle" /\ outcome[t] = "return")
    /\ \A t \in Threads : [](Stalled(t) => [](pc[t] = "collect"))

\* The call has read the frames of a server that sent no done, and waits.
C15_Witness ==
    \E t \in threads :
        /\ Stalled(t)
        /\ Len(got[t]) >= 2
        /\ inbox[conn[t]] = <<>>

-----------------------------------------------------------------------------
(* C16: concurrent calls *)

\* C16: nothing orders the calls of two threads. A thread that is not in a call
\* can begin eval_clojure whatever the other thread is doing, a call that is to
\* write writes on the connection it holds whatever waits there, and a call
\* that is to read takes the next frame of the connection, whichever request
\* that frame answers.
C16_CallsAreNotSerialized ==
    \A t \in threads :
        /\ (pc[t] = "idle" /\ calls < budget.calls)
              => \A c \in Codes : ENABLED Begin(t, "eval", c)
        /\ (pc[t] = "write" /\ conn[t] \in open) => ENABLED Write(t)
        /\ (pc[t] = "collect" /\ conn[t] \in open /\ inbox[conn[t]] # <<>>)
              => ENABLED EvalRead(t)

\* A call has read a frame that answers the eval request the other thread's
\* call wrote on the shared connection.
C16_Witness ==
    \E t, u \in threads :
        /\ t # u
        /\ conn[t] = conn[u]
        /\ \E i \in 1..Len(took[t]) :
              /\ took[t][i] \notin asked[t]
              /\ took[t][i] \in EvalsAsked(u)
              /\ op[u] = "eval"

-----------------------------------------------------------------------------
(* C17: clone before eval *)

\* C17: on every connection an eval request is written only after a clone
\* request was written there and its response was read there.
C17_ClonePrecedesEval ==
    \A c \in 1..conns : \A i \in Requests(log[c], "eval") :
        /\ c \in DOMAIN negotiated
        /\ \E j \in Requests(log[c], "clone") : j < i

-----------------------------------------------------------------------------
(* C18: whose frames a call reads *)

\* C18: with the calls issued one after the other, every frame a call has read
\* answers a request that call wrote, and a call that has ended leaves no
\* frame and no unanswered request on its connection.
C18_FramesAreTheCallsOwn ==
    \A t \in threads :
        /\ \A i \in 1..Len(took[t]) : took[t][i] \in asked[t]
        /\ (pc[t] = "idle" /\ op[t] \in {"eval", "ns"} /\ conn[t] \in open)
              => inbox[conn[t]] = <<>> /\ wire[conn[t]] = <<>>

-----------------------------------------------------------------------------
(* C19: eval_clojure_simple *)

\* C19: a call of eval_clojure_simple that has ended, by its return or by its
\* except clause, has left the connection it opened closed; and the connection
\* it opens is never the one an instance has cached, which it leaves cached
\* and open as it was.
C19_SimpleClosesItsConnection ==
    \A t \in threads : op[t] = "simple" =>
        /\ conn[t] # None => conn[t] # connection
        /\ (pc[t] = "idle" /\ conn[t] # None) => conn[t] \notin open

-----------------------------------------------------------------------------
(* C20: the pattern and its string literal *)

\* The position of the first double quote of x, which opens the literal.
LiteralOpens(x) == CHOOSE i \in 1..Len(x) : x[i] = "\"" /\ \A j \in 1..(i - 1) : x[j] # "\""

RECURSIVE LiteralEnds(_, _)
\* The position at which Clojure's reader ends a string literal whose text
\* begins at position i of x: a backslash takes the character after it into the
\* literal, and the first double quote not so taken ends it; 0 when none does.
LiteralEnds(x, i) ==
    IF i > Len(x) THEN 0
    ELSE IF x[i] = "\\" THEN LiteralEnds(x, i + 2)
    ELSE IF x[i] = "\"" THEN i
    ELSE LiteralEnds(x, i + 1)

\* C20: in the expression apropos and find_doc build, the string literal opened
\* after the function name ends at the last double quote, the one before the
\* closing parenthesis, and nowhere before it.
C20_PatternStaysInLiteral ==
    \A t \in threads : tool[t] \in {"apropos", "find_doc"} =>
        LiteralEnds(code[t], LiteralOpens(code[t]) + 1) = Len(code[t]) - 1

====
